---------------------------- MODULE Spec2Model ----------------------------
(***************************************************************************)
(* The DataFetcher page of frontend/src/app/data/page.tsx: a table of      *)
(* installation records fetched once, narrowed by a free-text search, a    *)
(* date range and per-column filters, sorted, and revealed incrementally.  *)
(* The file holds three versions of the component; `variant` selects one.  *)
(*                                                                         *)
(* JavaScript strings are sequences of one-character strings, so that      *)
(* toLowerCase, includes, toString, parseFloat and localeCompare are       *)
(* computed.  A field value carries its JavaScript type: [t |-> "number",  *)
(* v |-> 10] or [t |-> "string", v |-> <<"d","o","n","e">>].               *)
(***************************************************************************)
EXTENDS Integers, Sequences, FiniteSets, TLC

VARIABLES
    variant,          \* which of the three versions of the component runs
    mounted,          \* the mount effects have run
    fetchStatus,      \* "idle", "pending", "resolved", "rejected"
    fetchCount,       \* number of requests issued
    data,             \* useState<DataModel[]>([])
    filteredData,     \* useState<DataModel[]>([])
    filters,          \* useState<Record<string, any>>({}): keys in insertion order
    loading,          \* useState<boolean>(true)
    error,            \* useState<string | null>(null)
    searchQuery,      \* useState("")
    startDate,        \* useState<Date | null>(null)
    endDate,          \* useState<Date | null>(null)
    sortColumn,       \* useState<string | null>
    sortDirection,    \* useState<"asc" | "desc">
    statusCounts,     \* installingCounts, failedCounts, doneCounts, unknownCounts
    itemsPerPage,     \* useState(50)
    raised            \* the derivation effect threw: the component is unmounted

vars == <<variant, mounted, fetchStatus, fetchCount, data, filteredData, filters,
          loading, error, searchQuery, startDate, endDate, sortColumn,
          sortDirection, statusCounts, itemsPerPage, raised>>

-----------------------------------------------------------------------------
(* Bounds and program constants *)

\* length of the long fetched list (longer than the initial reveal count)
LongLen == 60

\* most (operator, value) entries the filter map holds at once
MaxFilterEntries == 2

\* useState(50)
InitialItems == 50

\* prev + 25
PageStep == 25

\* null where a string is expected
Null == "null"

\* null where a Date is expected; a Date with time value n is <<n>>
NullDate == <<>>

Variants == {1, 2, 3}

-----------------------------------------------------------------------------
(* JavaScript strings and numbers *)

Min(a, b) == IF a < b THEN a ELSE b

Reverse(s) == [i \in 1..Len(s) |-> s[Len(s) + 1 - i]]

Range(s) == {s[i] : i \in 1..Len(s)}

Digits == <<"0", "1", "2", "3", "4", "5", "6", "7", "8", "9">>

IsDigit(c) == c \in Range(Digits)

LowerLetters == <<"a", "b", "c", "d", "e", "f", "g", "h", "i", "j", "k", "l", "m",
                  "n", "o", "p", "q", "r", "s", "t", "u", "v", "w", "x", "y", "z">>

UpperLetters == <<"A", "B", "C", "D", "E", "F", "G", "H", "I", "J", "K", "L", "M",
                  "N", "O", "P", "Q", "R", "S", "T", "U", "V", "W", "X", "Y", "Z">>

Chars == Range(Digits) \cup Range(LowerLetters) \cup Range(UpperLetters)

IsUpper(c) == c \in Range(UpperLetters)

\* String.prototype.toLowerCase, character by character
LowerChar ==
    [c \in Chars |->
        IF IsUpper(c) THEN LowerLetters[CHOOSE i \in 1..26 : UpperLetters[i] = c] ELSE c]

\* String.prototype.toLowerCase
toLowerCase(s) == [i \in 1..Len(s) |-> LowerChar[s[i]]]

\* String.prototype.includes
includes(s, sub) ==
    \E i \in 0..(Len(s) - Len(sub)) : SubSeq(s, i + 1, i + Len(sub)) = sub

\* Number.prototype.toString for a natural number
RECURSIVE NumToString(_)
NumToString(n) ==
    IF n < 10 THEN <<Digits[n + 1]>>
    ELSE NumToString(n \div 10) \o <<Digits[(n % 10) + 1]>>

\* value of the digit characters
DigitValue == [c \in Range(Digits) |-> (CHOOSE i \in 1..10 : Digits[i] = c) - 1]

\* value of the first n characters of s, all digits
RECURSIVE DigitsValue(_, _)
DigitsValue(s, n) ==
    IF n = 0 THEN 0 ELSE 10 * DigitsValue(s, n - 1) + DigitValue[s[n]]

\* length of the longest prefix of s made of digits
DigitPrefixLen(s) ==
    LET others == {i \in 1..Len(s) : ~IsDigit(s[i])}
    IN  IF others = {} THEN Len(s)
        ELSE (CHOOSE i \in others : \A j \in others : i <= j) - 1

\* NaN is <<>>, the number n is <<n>>
NaN == <<>>

\* parseFloat yielding 0 where there is no number to read
parseFloatOrZero(s) ==
    LET n == DigitPrefixLen(s)
    IN  IF n = 0 THEN <<0>> ELSE <<DigitsValue(s, n)>>

\* parseFloat: the number written by the leading digits, NaN when there are none
parseFloat(s) ==
    LET n == DigitPrefixLen(s)
    IN  IF n = 0 THEN NaN ELSE <<DigitsValue(s, n)>>

\* collation rank of a character: digits before letters, case ignored
CollationOrder == Digits \o LowerLetters

Rank == [c \in Chars |-> CHOOSE i \in 1..36 : CollationOrder[i] = LowerChar[c]]

\* the first position at which a and b differ under Differ, 0 when there is none
FirstDifference(places) ==
    IF places = {} THEN 0 ELSE CHOOSE i \in places : \A j \in places : i <= j

\* first level of String.prototype.localeCompare: by collation rank, a prefix first
PrimaryCompare(a, b) ==
    LET at == FirstDifference({i \in 1..Min(Len(a), Len(b)) : Rank[a[i]] # Rank[b[i]]})
    IN  IF at = 0
        THEN (IF Len(a) < Len(b) THEN -1 ELSE IF Len(a) > Len(b) THEN 1 ELSE 0)
        ELSE IF Rank[a[at]] < Rank[b[at]] THEN -1 ELSE 1

\* last level: at the first character that differs, lower case before upper case
CaseCompare(a, b) ==
    LET at == FirstDifference({i \in 1..Min(Len(a), Len(b)) : a[i] # b[i]})
    IN  IF at = 0 THEN 0 ELSE IF IsUpper(b[at]) THEN -1 ELSE 1

\* String.prototype.localeCompare
localeCompare(a, b) ==
    LET primary == PrimaryCompare(a, b)
    IN  IF primary # 0 THEN primary ELSE CaseCompare(a, b)

-----------------------------------------------------------------------------
(* Records *)

Num(n) == [t |-> "number", v |-> n]

Str(s) == [t |-> "string", v |-> s]

\* typeof
typeof(x) == x.t

\* a field the JSON gives as null; typeof null is "object"
NullValue == [t |-> "object", v |-> <<>>]

\* a field the JSON object does not have: reading it yields undefined
Absent == [t |-> "undefined", v |-> <<>>]

\* the fields of DataModel the model carries: two numeric ones, three strings
Fields == <<"id", "disk_size", "nsapp", "status", "created_at">>

\* the columns of the table whose header the user may click
Columns == {"disk_size", "status", "created_at"}

Rec(id, disk, app, status, created) ==
    [id |-> Num(id), disk_size |-> Num(disk), nsapp |-> Str(app),
     status |-> Str(status), created_at |-> Str(created)]

\* Object.values(item): the values of the fields the object has, in field order
ObjectValues(item) ==
    LET Present(x) == typeof(x) # "undefined"
    IN  SelectSeq([i \in 1..Len(Fields) |-> item[Fields[i]]], Present)

\* value.toString()
toString(x) == IF typeof(x) = "number" THEN NumToString(x.v) ELSE x.v

sInstalling == <<"i", "n", "s", "t", "a", "l", "l", "i", "n", "g">>

sDone == <<"d", "o", "n", "e">>

sFailed == <<"f", "a", "i", "l", "e", "d">>

\* a status outside the three known ones
sOther == <<"x">>

\* created_at is written "t" followed by digits; new Date() of it has that
\* number as its time value, of any other string it is an Invalid Date (NaN)
NewDate(s) ==
    IF Len(s) >= 2 /\ s[1] = "t" /\ DigitPrefixLen(Tail(s)) = Len(s) - 1
    THEN <<DigitsValue(Tail(s), Len(s) - 1)>> ELSE NaN

Stamp(n) == <<"t">> \o NumToString(n)

\* the three records of a small installation log
ExampleList ==
    << Rec(1, 10, <<"n", "8", "n">>, sDone, Stamp(3)),
       Rec(2, 20, <<"H", "a">>, sFailed, Stamp(1)),
       Rec(3, 5, <<"z", "a", "b">>, sInstalling, Stamp(2)) >>

\* a list with a record that occurs twice, equal disk sizes and an unknown status
TiesList ==
    << Rec(7, 10, <<"h", "a">>, sDone, Stamp(2)),
       Rec(4, 10, <<"H", "a">>, sOther, Stamp(2)),
       Rec(7, 10, <<"h", "a">>, sDone, Stamp(2)),
       Rec(5, 3, <<"n", "8", "n">>, sFailed, Stamp(1)),
       Rec(6, 6, <<"z", "a", "b">>, sInstalling, Stamp(3)) >>

\* the long list: four records that differ, then records alike but for their id
LongRec(i) ==
    IF i = 1 THEN Rec(1, 4, <<"H", "a">>, sFailed, Stamp(1))
    ELSE IF i = 2 THEN Rec(2, 8, <<"h", "a">>, sOther, Stamp(3))
    ELSE IF i = 3 THEN Rec(3, 16, <<"n", "8", "n">>, sInstalling, Stamp(2))
    ELSE IF i = 4 THEN Rec(4, 2, <<"z", "a", "b">>, sDone, Stamp(1))
    ELSE Rec(i, 12, <<"n", "8", "n">>, sDone, Stamp(2))

\* a list with a record whose nsapp is null and a record without a status
MalformedList ==
    << [Rec(8, 7, <<>>, sDone, Stamp(2)) EXCEPT !.nsapp = NullValue],
       [Rec(9, 9, <<"h", "a">>, <<>>, Stamp(1)) EXCEPT !.status = Absent],
       Rec(10, 11, <<"z", "a", "b">>, sDone, Stamp(3)) >>

\* a list longer than the initial reveal count
LongList == [i \in 1..LongLen |-> LongRec(i)]

\* the JSON arrays the endpoint may answer with
FetchResults == { <<>>, ExampleList, TiesList, MalformedList, LongList }

\* err.message of a failed fetch: a network error, a non-OK status
ErrorMessages == { "Failed to fetch", "Failed to fetch data: Not Found" }

sFail == <<"F", "a", "i", "l">>

\* what the user may type in the search box
SearchQueries == { <<>>, sFail }

\* what the date pickers may be set to
DateChoices == { NullDate, <<2>> }

\* [column, operator, value] triples the filter popover may submit
FilterChoices ==
    { <<"disk_size", "greater", <<"8">>>>,
      <<"disk_size", "less or equal", <<"3", "x">>>>,
      <<"status", "equals", <<"D", "O", "N", "E">>>>,
      <<"status", "greater", <<"1">>>>,
      <<"disk_size", "greater", <<"x">>>> }

\* the triples submitted while the long list is shown
LongFilterChoices == { <<"disk_size", "greater", <<"8">>>> }

-----------------------------------------------------------------------------
(* The derivation effect *)

\* the filter map: a sequence of [key, list] in insertion order of the keys,
\* each list a sequence of [operator, value]
HasKey(f, column) == \E i \in 1..Len(f) : f[i].key = column

\* f[column]
Lookup(f, column) == f[CHOOSE i \in 1..Len(f) : f[i].key = column].list

\* ValueIncludes with the query compared as typed
ValueIncludesCaseSensitive(value, q) == includes(toLowerCase(toString(value)), q)

\* the callback of Object.values(item).some(...) on a value that has a toString
ValueIncludes(value, q) == includes(toLowerCase(toString(value)), toLowerCase(q))

\* null.toString() throws a TypeError
ToStringThrows(value) == typeof(value) = "object"

\* some(...) calls its callback value by value and stops at the first that
\* matches: it throws when it comes to a null before any value has matched
SearchRaises(item, q) ==
    LET values == ObjectValues(item)
    IN  \E i \in 1..Len(values) :
            /\ ToStringThrows(values[i])
            /\ \A j \in 1..(i - 1) : ~ValueIncludes(values[j], q)

\* the result of some(...) when it does not throw
matchesSearchQuery(item, q) ==
    LET values == ObjectValues(item)
    IN  \E i \in 1..Len(values) :
            ~ToStringThrows(values[i]) /\ ValueIncludes(values[i], q)

\* the first filter pass visits every record of data: the effect throws when
\* the search throws on one of them
DeriveRaises(d, q) == \E n \in 1..Len(d) : SearchRaises(d[n], q)

\* DateGeq with > in the place of >=
DateGreater(a, b) == a # NaN /\ b # NaN /\ a[1] > b[1]

\* a >= b on Dates: false when either is an Invalid Date
DateGeq(a, b) == a # NaN /\ b # NaN /\ a[1] >= b[1]

matchesDateRange(item, sd, ed) ==
    LET itemDate == NewDate(item.created_at.v)
    IN  /\ (sd = NullDate \/ DateGeq(itemDate, sd))
        /\ (ed = NullDate \/ DateGeq(ed, itemDate))

\* the callback of filters[key].some(...)
FilterMatches(itemValue, operator, value) ==
    IF typeof(itemValue) = "number"
    THEN LET parsed == parseFloat(value)
         IN  /\ parsed # NaN
             /\ CASE operator = "greater" -> itemValue.v > parsed[1]
                  [] operator = "greater or equal" -> itemValue.v >= parsed[1]
                  [] operator = "less" -> itemValue.v < parsed[1]
                  [] operator = "less or equal" -> itemValue.v <= parsed[1]
                  [] OTHER -> FALSE
    ELSE IF typeof(itemValue) = "string"
    THEN CASE operator = "equals" -> toLowerCase(itemValue.v) = toLowerCase(value)
           [] operator = "not equals" -> toLowerCase(itemValue.v) # toLowerCase(value)
           [] operator = "contains" ->
                  includes(toLowerCase(itemValue.v), toLowerCase(value))
           [] operator = "does not contain" ->
                  ~includes(toLowerCase(itemValue.v), toLowerCase(value))
           [] OTHER -> FALSE
    ELSE FALSE

\* SomeFilterMatches with every in the place of some
EveryFilterMatches(item, key, list) ==
    \A j \in 1..Len(list) : FilterMatches(item[key], list[j].operator, list[j].value)

\* filters[key].some(...)
SomeFilterMatches(item, key, list) ==
    \E j \in 1..Len(list) : FilterMatches(item[key], list[j].operator, list[j].value)

\* ApplyColumnFilters with the matches of a key pushed onto the list instead of
\* replacing it
RECURSIVE ApplyColumnFiltersPushing(_, _, _)
ApplyColumnFiltersPushing(s, f, k) ==
    IF k > Len(f) THEN s
    ELSE LET Keep(item) == SomeFilterMatches(item, f[k].key, f[k].list)
         IN  ApplyColumnFiltersPushing(s \o SelectSeq(s, Keep), f, k + 1)

\* ApplyColumnFilters with each pass made over the list before the filters, so
\* that the last key's pass is the one that stays
ApplyColumnFiltersLastKeyOnly(s, f, k) ==
    IF Len(f) = 0 THEN s
    ELSE LET Keep(item) == SomeFilterMatches(item, f[Len(f)].key, f[Len(f)].list)
         IN  SelectSeq(s, Keep)

\* Object.keys(filters).forEach: one filter pass per key, in key order
RECURSIVE ApplyColumnFilters(_, _, _)
ApplyColumnFilters(s, f, k) ==
    IF k > Len(f) THEN s
    ELSE IF Len(f[k].list) = 0 THEN ApplyColumnFilters(s, f, k + 1)
    ELSE LET Keep(item) == SomeFilterMatches(item, f[k].key, f[k].list)
         IN  ApplyColumnFilters(SelectSeq(s, Keep), f, k + 1)

\* SortComparator with the direction left out of the comparison
SortComparatorAscending(a, b, column, direction) ==
    LET valA == a[column]
        valB == b[column]
    IN  IF typeof(valA) = "number" /\ typeof(valB) = "number" THEN valA.v - valB.v
        ELSE IF typeof(valA) = "string" /\ typeof(valB) = "string"
        THEN localeCompare(valA.v, valB.v)
        ELSE 0

\* the comparator handed to sort
SortComparator(a, b, column, direction) ==
    LET valA == a[column]
        valB == b[column]
    IN  IF typeof(valA) = "number" /\ typeof(valB) = "number"
        THEN (IF direction = "asc" THEN valA.v - valB.v ELSE valB.v - valA.v)
        ELSE IF typeof(valA) = "string" /\ typeof(valB) = "string"
        THEN (IF direction = "asc" THEN localeCompare(valA.v, valB.v)
                                   ELSE localeCompare(valB.v, valA.v))
        ELSE 0

\* Array.prototype.sort, a stable sort: an element moves in front of those
\* that compare greater than it and of no other
StableSort(s, column, direction) ==
    LET Less(a, b) == SortComparator(a, b, column, direction) < 0
    IN  SortSeq(s, Less)

\* sortedAndFilteredData when the effect reaches its last statement
Derive(d, f, q, sd, ed, column, direction) ==
    LET Keep(item) == matchesSearchQuery(item, q) /\ matchesDateRange(item, sd, ed)
        filtered == ApplyColumnFilters(SelectSeq(d, Keep), f, 1)
    IN  IF column # Null THEN StableSort(filtered, column, direction) ELSE filtered

\* Stored without the slice of the first version
StoredWhole(v, full, ipp) == full

\* what the effect hands to setFilteredData
Stored(v, full, ipp) ==
    IF v = 1 THEN SubSeq(full, 1, Min(ipp, Len(full))) ELSE full

-----------------------------------------------------------------------------
(* Status counts and what the page renders *)

\* StatusBucket without the branch for done
StatusBucketWithoutDone(item) ==
    IF item.status.v = sInstalling THEN "installing"
    ELSE IF item.status.v = sFailed THEN "failed"
    ELSE "unknown"

\* the if / else if chain of fetchData's result.forEach
StatusBucket(item) ==
    IF item.status.v = sInstalling THEN "installing"
    ELSE IF item.status.v = sFailed THEN "failed"
    ELSE IF item.status.v = sDone THEN "done"
    ELSE "unknown"

\* the four counters after result.forEach
CountStatuses(result) ==
    [b \in {"installing", "failed", "done", "unknown"} |->
        Cardinality({i \in 1..Len(result) : StatusBucket(result[i]) = b})]

\* the filteredCounts object of the second and third version
filteredCounts(fd) ==
    LET IsInstalling(item) == item.status.v = sInstalling
        IsDone(item) == item.status.v = sDone
        IsFailed(item) == item.status.v = sFailed
        IsUnknown(item) == item.status.v \notin {sInstalling, sDone, sFailed}
    IN  [installing |-> Len(SelectSeq(fd, IsInstalling)),
         done |-> Len(SelectSeq(fd, IsDone)),
         failed |-> Len(SelectSeq(fd, IsFailed)),
         unknown |-> Len(SelectSeq(fd, IsUnknown))]

\* the early returns of the render: neither "Loading..." nor "Error: ..."
ViewShown == ~loading /\ error = Null

\* the four numbers of the Status Legend
Legend == IF variant = 1 THEN statusCounts ELSE filteredCounts(filteredData)

\* RenderedRows without the slice
RenderedRowsUnsliced == filteredData

\* the rows of the table body
RenderedRows == SubSeq(filteredData, 1, Min(itemsPerPage, Len(filteredData)))

\* the condition under which the "No results found" row is rendered
NoResultsShown == ViewShown /\ ~(Len(filteredData) > 0)

\* the condition under which the "Load more..." button is rendered
LoadMoreOffered == ViewShown /\ itemsPerPage < Len(filteredData)

-----------------------------------------------------------------------------
(* The component *)

Init ==
    /\ variant \in Variants
    /\ mounted = FALSE
    /\ fetchStatus = "idle"
    /\ fetchCount = 0
    /\ data = <<>>
    /\ filteredData = <<>>
    /\ filters = <<>>
    /\ loading = TRUE
    /\ error = Null
    /\ searchQuery = <<>>
    /\ startDate = NullDate
    /\ endDate = NullDate
    /\ sortColumn = (IF variant = 1 THEN Null ELSE "created_at")
    /\ sortDirection = (IF variant = 1 THEN "asc" ELSE "desc")
    /\ statusCounts = [installing |-> 0, failed |-> 0, done |-> 0, unknown |-> 0]
    /\ itemsPerPage = InitialItems
    /\ raised = FALSE

\* the derivation effect run on the values the render that follows an event has
Rederive(d, f, q, sd, ed, column, direction, ipp) ==
    Stored(variant, Derive(d, f, q, sd, ed, column, direction), ipp)

\* the effects of the first render: the request is sent, the derivation runs
Mount ==
    /\ ~raised
    /\ ~mounted
    /\ mounted' = TRUE
    /\ fetchStatus' = "pending"
    /\ fetchCount' = fetchCount + 1
    /\ raised' = DeriveRaises(data, searchQuery)
    /\ filteredData' =
           IF raised' THEN filteredData
           ELSE Rederive(data, filters, searchQuery, startDate, endDate,
                         sortColumn, sortDirection, itemsPerPage)
    /\ UNCHANGED <<variant, data, filters, loading, error, searchQuery, startDate,
                   endDate, sortColumn, sortDirection, statusCounts, itemsPerPage>>

\* FetchResolve with setLoading(false) reached on the failure path only
FetchResolveStillLoading(result) ==
    /\ ~raised
    /\ fetchStatus = "pending"
    /\ fetchStatus' = "resolved"
    /\ data' = result
    /\ statusCounts' = CountStatuses(result)
    /\ raised' = DeriveRaises(result, searchQuery)
    /\ filteredData' =
           IF raised' THEN result
           ELSE Rederive(result, filters, searchQuery, startDate, endDate,
                         sortColumn, sortDirection, itemsPerPage)
    /\ UNCHANGED <<variant, mounted, fetchCount, filters, loading, error, searchQuery,
                   startDate, endDate, sortColumn, sortDirection, itemsPerPage>>

\* fetchData: the response is OK and its body parses; then the derivation effect
FetchResolve(result) ==
    /\ ~raised
    /\ fetchStatus = "pending"
    /\ fetchStatus' = "resolved"
    /\ data' = result
    /\ statusCounts' = CountStatuses(result)
    /\ loading' = FALSE
    /\ raised' = DeriveRaises(result, searchQuery)
    /\ filteredData' =
           IF raised' THEN result
           ELSE Rederive(result, filters, searchQuery, startDate, endDate,
                         sortColumn, sortDirection, itemsPerPage)
    /\ UNCHANGED <<variant, mounted, fetchCount, filters, error, searchQuery,
                   startDate, endDate, sortColumn, sortDirection, itemsPerPage>>

\* FetchReject without the finally block
FetchRejectStillLoading(message) ==
    /\ fetchStatus = "pending"
    /\ fetchStatus' = "rejected"
    /\ error' = message
    /\ UNCHANGED <<variant, mounted, fetchCount, data, filteredData, filters, loading,
                   searchQuery, startDate, endDate, sortColumn, sortDirection,
                   statusCounts, itemsPerPage, raised>>

\* fetchData: the request fails or the response is not OK
FetchReject(message) ==
    /\ fetchStatus = "pending"
    /\ fetchStatus' = "rejected"
    /\ error' = message
    /\ loading' = FALSE
    /\ UNCHANGED <<variant, mounted, fetchCount, data, filteredData, filters,
                   searchQuery, startDate, endDate, sortColumn, sortDirection,
                   statusCounts, itemsPerPage, raised>>

\* SetSearchQuery with the reveal count set back to its initial value
SetSearchQueryResettingReveal(q) ==
    /\ ~raised
    /\ ViewShown
    /\ searchQuery' = q
    /\ itemsPerPage' = InitialItems
    /\ raised' = (q # searchQuery /\ DeriveRaises(data, q))
    /\ filteredData' =
           IF raised' THEN filteredData
           ELSE IF q = searchQuery THEN filteredData
                           ELSE Rederive(data, filters, q, startDate, endDate,
                                         sortColumn, sortDirection, itemsPerPage')
    /\ UNCHANGED <<variant, mounted, fetchStatus, fetchCount, data, filters, loading,
                   error, startDate, endDate, sortColumn, sortDirection,
                   statusCounts>>

\* onChange of the search box
SetSearchQuery(q) ==
    /\ ~raised
    /\ ViewShown
    /\ searchQuery' = q
    /\ raised' = (q # searchQuery /\ DeriveRaises(data, q))
    /\ filteredData' =
           IF raised' THEN filteredData
           ELSE IF q = searchQuery THEN filteredData
                           ELSE Rederive(data, filters, q, startDate, endDate,
                                         sortColumn, sortDirection, itemsPerPage)
    /\ UNCHANGED <<variant, mounted, fetchStatus, fetchCount, data, filters, loading,
                   error, startDate, endDate, sortColumn, sortDirection,
                   statusCounts, itemsPerPage>>

\* SetStartDate with startDate left out of the effect's dependency list
SetStartDateWithoutEffect(d) ==
    /\ ~raised
    /\ ViewShown
    /\ startDate' = d
    /\ raised' = raised
    /\ filteredData' = filteredData
    /\ UNCHANGED <<variant, mounted, fetchStatus, fetchCount, data, filters, loading,
                   error, searchQuery, endDate, sortColumn, sortDirection,
                   statusCounts, itemsPerPage>>

\* onChange of the first date picker
SetStartDate(d) ==
    /\ ~raised
    /\ ViewShown
    /\ startDate' = d
    /\ raised' = (d # startDate /\ DeriveRaises(data, searchQuery))
    /\ filteredData' =
           IF raised' THEN filteredData
           ELSE IF d = startDate THEN filteredData
                           ELSE Rederive(data, filters, searchQuery, d, endDate,
                                         sortColumn, sortDirection, itemsPerPage)
    /\ UNCHANGED <<variant, mounted, fetchStatus, fetchCount, data, filters, loading,
                   error, searchQuery, endDate, sortColumn, sortDirection,
                   statusCounts, itemsPerPage>>

\* onChange of the second date picker
SetEndDate(d) ==
    /\ ~raised
    /\ ViewShown
    /\ endDate' = d
    /\ raised' = (d # endDate /\ DeriveRaises(data, searchQuery))
    /\ filteredData' =
           IF raised' THEN filteredData
           ELSE IF d = endDate THEN filteredData
                           ELSE Rederive(data, filters, searchQuery, startDate, d,
                                         sortColumn, sortDirection, itemsPerPage)
    /\ UNCHANGED <<variant, mounted, fetchStatus, fetchCount, data, filters, loading,
                   error, searchQuery, startDate, sortColumn, sortDirection,
                   statusCounts, itemsPerPage>>

\* ToggledSort with the direction kept when another column is chosen
ToggledSortKeepingDirection(column) ==
    IF sortColumn = column
    THEN [column |-> sortColumn,
          direction |-> (IF sortDirection = "asc" THEN "desc" ELSE "asc")]
    ELSE [column |-> column, direction |-> sortDirection]

\* the new sort state of toggleSort(column)
ToggledSort(column) ==
    IF sortColumn = column
    THEN [column |-> sortColumn,
          direction |-> (IF sortDirection = "asc" THEN "desc" ELSE "asc")]
    ELSE [column |-> column, direction |-> "asc"]

\* ToggleSort sorting the fetched list itself instead of a copy
ToggleSortInPlace(column) ==
    /\ ~raised
    /\ ViewShown
    /\ sortColumn' = ToggledSort(column).column
    /\ sortDirection' = ToggledSort(column).direction
    /\ data' = StableSort(data, sortColumn', sortDirection')
    /\ raised' = DeriveRaises(data, searchQuery)
    /\ filteredData' =
           IF raised' THEN filteredData
           ELSE Rederive(data, filters, searchQuery, startDate, endDate,
                         sortColumn', sortDirection', itemsPerPage)
    /\ UNCHANGED <<variant, mounted, fetchStatus, fetchCount, filters, loading,
                   error, searchQuery, startDate, endDate, statusCounts, itemsPerPage>>

\* a click on a column header
ToggleSort(column) ==
    /\ ~raised
    /\ ViewShown
    /\ sortColumn' = ToggledSort(column).column
    /\ sortDirection' = ToggledSort(column).direction
    /\ raised' = DeriveRaises(data, searchQuery)
    /\ filteredData' =
           IF raised' THEN filteredData
           ELSE Rederive(data, filters, searchQuery, startDate, endDate,
                         sortColumn', sortDirection', itemsPerPage)
    /\ UNCHANGED <<variant, mounted, fetchStatus, fetchCount, data, filters, loading,
                   error, searchQuery, startDate, endDate, statusCounts, itemsPerPage>>

\* number of entries of the whole filter map
RECURSIVE TotalEntries(_)
TotalEntries(f) == IF f = <<>> THEN 0 ELSE Len(f[1].list) + TotalEntries(Tail(f))

\* filters[column].some(filter => filter.operator === operator && filter.value === value)
AlreadyExists(f, column, operator, value) ==
    /\ HasKey(f, column)
    /\ \E j \in 1..Len(Lookup(f, column)) :
           /\ Lookup(f, column)[j].operator = operator
           /\ Lookup(f, column)[j].value = value

\* AppliedFilters pushing the entry whether or not it already exists
AppliedFiltersAlwaysPushing(prev, column, operator, value) ==
    LET entry == [operator |-> operator, value |-> value]
    IN  IF ~HasKey(prev, column)
        THEN Append(prev, [key |-> column, list |-> <<entry>>])
        ELSE [i \in 1..Len(prev) |->
                 IF prev[i].key = column
                 THEN [prev[i] EXCEPT !.list = Append(@, entry)] ELSE prev[i]]

\* the updater of applyFilters
AppliedFilters(prev, column, operator, value) ==
    LET entry == [operator |-> operator, value |-> value]
    IN  IF ~HasKey(prev, column)
        THEN Append(prev, [key |-> column, list |-> <<entry>>])
        ELSE IF AlreadyExists(prev, column, operator, value) THEN prev
        ELSE [i \in 1..Len(prev) |->
                 IF prev[i].key = column
                 THEN [prev[i] EXCEPT !.list = Append(@, entry)] ELSE prev[i]]

\* RemovedFilter without the delete of an emptied key
RemovedFilterKeepingKey(prev, column, index) ==
    LET old == Lookup(prev, column)
        list == SubSeq(old, 1, index) \o SubSeq(old, index + 2, Len(old))
    IN  [i \in 1..Len(prev) |->
            IF prev[i].key = column THEN [prev[i] EXCEPT !.list = list] ELSE prev[i]]

\* the updater of removeFilter; index counts from 0
RemovedFilter(prev, column, index) ==
    LET old == Lookup(prev, column)
        list == SubSeq(old, 1, index) \o SubSeq(old, index + 2, Len(old))
        IsOther(e) == e.key # column
    IN  IF Len(list) = 0 THEN SelectSeq(prev, IsOther)
        ELSE [i \in 1..Len(prev) |->
                 IF prev[i].key = column THEN [prev[i] EXCEPT !.list = list] ELSE prev[i]]

\* onApplyFilter of the filter popover
ApplyFilters(column, operator, value) ==
    /\ ~raised
    /\ ViewShown
    /\ TotalEntries(filters) < MaxFilterEntries
           \/ AlreadyExists(filters, column, operator, value)
    /\ filters' = AppliedFilters(filters, column, operator, value)
    /\ raised' = DeriveRaises(data, searchQuery)
    /\ filteredData' =
           IF raised' THEN filteredData
           ELSE Rederive(data, filters', searchQuery, startDate, endDate,
                         sortColumn, sortDirection, itemsPerPage)
    /\ UNCHANGED <<variant, mounted, fetchStatus, fetchCount, data, loading, error,
                   searchQuery, startDate, endDate, sortColumn, sortDirection,
                   statusCounts, itemsPerPage>>

\* the remove button of an active filter, or onRemoveFilter of the popover
RemoveFilter(column, index) ==
    /\ ~raised
    /\ ViewShown
    /\ HasKey(filters, column)
    /\ index \in 0..Len(Lookup(filters, column))
    /\ filters' = RemovedFilter(filters, column, index)
    /\ raised' = DeriveRaises(data, searchQuery)
    /\ filteredData' =
           IF raised' THEN filteredData
           ELSE Rederive(data, filters', searchQuery, startDate, endDate,
                         sortColumn, sortDirection, itemsPerPage)
    /\ UNCHANGED <<variant, mounted, fetchStatus, fetchCount, data, loading, error,
                   searchQuery, startDate, endDate, sortColumn, sortDirection,
                   statusCounts, itemsPerPage>>

\* the derivation effect after setItemsPerPage: only the first version lists
\* itemsPerPage among the effect's dependencies, and an unchanged value is no change
AfterReveal(ipp) ==
    IF variant = 1 /\ ipp # itemsPerPage
    THEN Rederive(data, filters, searchQuery, startDate, endDate,
                  sortColumn, sortDirection, ipp)
    ELSE filteredData

\* whether that run of the effect throws
RevealRaises(ipp) ==
    variant = 1 /\ ipp # itemsPerPage /\ DeriveRaises(data, searchQuery)

\* a click on "Load more..."
HandleLoadMore ==
    /\ ~raised
    /\ LoadMoreOffered
    /\ itemsPerPage' = itemsPerPage + PageStep
    /\ raised' = RevealRaises(itemsPerPage')
    /\ filteredData' =
           IF raised' THEN filteredData ELSE AfterReveal(itemsPerPage')
    /\ UNCHANGED <<variant, mounted, fetchStatus, fetchCount, data, filters, loading,
                   error, searchQuery, startDate, endDate, sortColumn, sortDirection,
                   statusCounts>>

\* ScrolledItems without its guard
ScrolledItemsUnguarded(prev) == prev + PageStep

\* ScrolledItems with a guard one step too wide
ScrolledItemsWithinStep(prev) ==
    IF prev < Len(filteredData) + PageStep THEN prev + PageStep ELSE prev

\* the updater of handleScroll
ScrolledItems(prev) == IF prev < Len(filteredData) THEN prev + PageStep ELSE prev

\* a scroll event of the window; the listener is there from the first render on
HandleScroll(nearBottom) ==
    /\ ~raised
    /\ mounted
    /\ itemsPerPage' = (IF nearBottom THEN ScrolledItems(itemsPerPage) ELSE itemsPerPage)
    /\ raised' = RevealRaises(itemsPerPage')
    /\ filteredData' =
           IF raised' THEN filteredData ELSE AfterReveal(itemsPerPage')
    /\ UNCHANGED <<variant, mounted, fetchStatus, fetchCount, data, filters, loading,
                   error, searchQuery, startDate, endDate, sortColumn, sortDirection,
                   statusCounts>>

\* With the long list fetched, only part of the inputs is explored: the long
\* list is there for the reveal count, the short lists for the derivation.
LongFetched == Len(data) > InitialItems

DatesOffered == IF LongFetched THEN {NullDate} ELSE DateChoices

FiltersOffered == IF LongFetched THEN LongFilterChoices ELSE FilterChoices

Resolve == \E result \in FetchResults : FetchResolve(result)

Reject == \E message \in ErrorMessages : FetchReject(message)

Search == \E q \in SearchQueries : SetSearchQuery(q)

PickStart == \E d \in DatesOffered : SetStartDate(d)

PickEnd == \E d \in DatesOffered : SetEndDate(d)

Sort == \E column \in Columns : ToggleSort(column)

AddFilter == \E c \in FiltersOffered : ApplyFilters(c[1], c[2], c[3])

DropFilter ==
    \E column \in Columns : \E index \in 0..MaxFilterEntries : RemoveFilter(column, index)

LoadMore == HandleLoadMore

Scroll == \E nearBottom \in BOOLEAN : HandleScroll(nearBottom)

Next ==
    \/ Mount
    \/ Resolve
    \/ Reject
    \/ Search
    \/ PickStart
    \/ PickEnd
    \/ Sort
    \/ AddFilter
    \/ DropFilter
    \/ LoadMore
    \/ Scroll

Spec == Init /\ [][Next]_vars

-----------------------------------------------------------------------------
(* Properties *)

\* number of occurrences of r in s
Occurrences(s, r) == Cardinality({i \in 1..Len(s) : s[i] = r})

\* the records of the fetched list that pass search, date range and every
\* column's filter group, in fetched order
PassesAll(item) ==
    /\ matchesSearchQuery(item, searchQuery)
    /\ matchesDateRange(item, startDate, endDate)
    /\ \A k \in 1..Len(filters) :
           \E j \in 1..Len(filters[k].list) :
               FilterMatches(item[filters[k].key], filters[k].list[j].operator,
                             filters[k].list[j].value)

Passing == SelectSeq(data, PassesAll)

\* the per-status tallies of a list
Tally(s) ==
    [installing |-> Cardinality({i \in 1..Len(s) : s[i].status.v = sInstalling}),
     done |-> Cardinality({i \in 1..Len(s) : s[i].status.v = sDone}),
     failed |-> Cardinality({i \in 1..Len(s) : s[i].status.v = sFailed}),
     unknown |-> Cardinality({i \in 1..Len(s) :
                     /\ s[i].status.v # sInstalling
                     /\ s[i].status.v # sDone
                     /\ s[i].status.v # sFailed})]

\* filteredData holds the whole derived list: always in the second and third
\* version, in the first one when the slice cut nothing off
Untruncated == variant # 1 \/ Len(filteredData) < itemsPerPage

\* C1: the list the derivation effect stores holds only records of the fetched
\* list, each at most as often as the fetched list holds it
C1_NoRecordInvented ==
    \A i \in 1..Len(filteredData) :
        Occurrences(filteredData, filteredData[i]) <= Occurrences(data, filteredData[i])

\* C1: a record fetched twice is shown twice while a filter and a sort are
\* active and other records are filtered out
C1_Witness ==
    /\ fetchStatus = "resolved"
    /\ filters # <<>>
    /\ sortColumn # Null
    /\ 0 < Len(filteredData) /\ Len(filteredData) < Len(data)
    /\ \E i \in 1..Len(filteredData) : Occurrences(filteredData, filteredData[i]) = 2

\* C2: no key of the filter map holds an empty list
C2_NoEmptyFilterList == \A k \in 1..Len(filters) : Len(filters[k].list) > 0

\* C2: a column holds one entry, and removing it deletes the column's key
C2_Witness ==
    \E k \in 1..Len(filters) :
        /\ Len(filters[k].list) = 1
        /\ Len(filters) = 2
        /\ ENABLED (RemoveFilter(filters[k].key, 0) /\ Len(filters') = 1)

\* C3: once the fetch has succeeded the four legend counts sum to the length
\* of the filtered list
C3_LegendSumsToFiltered ==
    fetchStatus = "resolved" =>
        Legend.installing + Legend.done + Legend.failed + Legend.unknown
            = Len(filteredData)

\* C4 as stated: after a click on "Load more..." and after a near-bottom scroll
\* the reveal count is at most the length of the filtered list
C4_RevealWithinList ==
    [][(HandleLoadMore \/ HandleScroll(TRUE)) => itemsPerPage' <= Len(filteredData')]_vars

\* C4 amended: a click on "Load more..." or a near-bottom scroll advances the
\* reveal count only from below the length of the filtered list, by one step,
\* so that it ends less than one step above that length; else it leaves it alone
C4_RevealAdvancesFromBelow ==
    [][(HandleLoadMore \/ HandleScroll(TRUE)) =>
          \/ itemsPerPage' = itemsPerPage
          \/ /\ itemsPerPage' = itemsPerPage + PageStep
             /\ itemsPerPage < Len(filteredData)
             /\ itemsPerPage' < Len(filteredData') + PageStep]_vars

\* C4: the reveal count has been advanced past the length of the filtered list
C4_Witness ==
    /\ itemsPerPage = InitialItems + PageStep
    /\ Len(filteredData) > InitialItems
    /\ Len(filteredData) < itemsPerPage

\* C5: once the fetch has succeeded the legend counts are the per-status
\* tallies of the records that pass search, date range and filters
C5_LegendTalliesPassing ==
    (fetchStatus = "resolved" /\ ~raised) => Legend = Tally(Passing)

\* C6: "Load more..." is offered exactly when more records pass the filters
\* than the reveal count covers
C6_LoadMoreWhenMorePass ==
    fetchStatus = "resolved" => (LoadMoreOffered <=> Len(Passing) > itemsPerPage)

\* C7: unless the derivation threw, a fetched record is in the derived list
\* exactly when it passes search and date range and, for every column with filters, at least one of that
\* column's pairs; the one filter disk_size greater "8" keeps exactly the
\* records whose disk_size is greater than 8
C7_OrWithinAndAcross ==
    (fetchStatus = "resolved" /\ Untruncated /\ ~raised) =>
        /\ \A i \in 1..Len(data) :
               (\E n \in 1..Len(filteredData) : filteredData[n] = data[i])
                   <=> PassesAll(data[i])
        /\ ( /\ filters = << [key |-> "disk_size",
                              list |-> <<[operator |-> "greater", value |-> <<"8">>]>>] >>
             /\ searchQuery = <<>> /\ startDate = NullDate /\ endDate = NullDate )
           => Range(filteredData) = {data[i] : i \in {n \in 1..Len(data) : data[n].disk_size.v > 8}}

\* C7: one column holds two pairs, and a record is kept that satisfies the
\* first of them only, another that satisfies the second only
C7_Witness ==
    /\ fetchStatus = "resolved"
    /\ Len(filters) = 1 /\ Len(filters[1].list) = 2
    /\ Len(filteredData) < Len(data)
    /\ \E m, n \in 1..Len(filteredData) :
           LET Holds(item, j) ==
                   FilterMatches(item[filters[1].key], filters[1].list[j].operator,
                                 filters[1].list[j].value)
           IN  /\ Holds(filteredData[m], 1) /\ ~Holds(filteredData[m], 2)
               /\ Holds(filteredData[n], 2) /\ ~Holds(filteredData[n], 1)

\* the values of a column are pairwise distinct over a list
DistinctOn(column, s) ==
    \A i, j \in 1..Len(s) : i # j => s[i][column] # s[j][column]

\* the values of a column are numbers, or pairwise distinct strings
NumbersOrDistinctStrings(column, s) ==
    \/ \A i \in 1..Len(s) : typeof(s[i][column]) = "number"
    \/ (\A i \in 1..Len(s) : typeof(s[i][column]) = "string") /\ DistinctOn(column, s)

\* a click on the header of the sort column, which flips the direction
FlipsDirection ==
    /\ sortColumn # Null
    /\ sortColumn' = sortColumn
    /\ sortDirection' # sortDirection
    /\ Untruncated

\* C8 as stated: when the sort column holds numbers, or pairwise distinct
\* strings, flipping the direction reverses the derived list
C8_FlipReversesTotalOrder ==
    [][(FlipsDirection /\ NumbersOrDistinctStrings(sortColumn, filteredData))
          => filteredData' = Reverse(filteredData)]_vars

\* C8 amended: when the values of the sort column are numbers, or are strings,
\* and pairwise distinct over the list, flipping the direction reverses the
\* derived list
C8_FlipReversesDistinct ==
    [][(/\ FlipsDirection
        /\ NumbersOrDistinctStrings(sortColumn, filteredData)
        /\ DistinctOn(sortColumn, filteredData))
          => filteredData' = Reverse(filteredData)]_vars

\* C8: in the first version, which starts unsorted and ascending, a list of
\* three or more records is sorted descending on a column of distinct values
C8_Witness ==
    /\ variant = 1
    /\ sortColumn # Null /\ sortDirection = "desc"
    /\ Len(filteredData) >= 3 /\ Untruncated
    /\ DistinctOn(sortColumn, filteredData)
    /\ NumbersOrDistinctStrings(sortColumn, filteredData)

\* C9: a failed fetch leaves the error set, loading false, data and
\* filteredData empty, and no later step clears the error or issues a request
C9_FailedFetchIsTerminal ==
    /\ [](fetchStatus = "rejected" =>
             /\ error # Null
             /\ ~loading
             /\ data = <<>> /\ filteredData = <<>>)
    /\ [][fetchStatus = "rejected" =>
             /\ error' = error
             /\ fetchStatus' = "rejected"
             /\ fetchCount' = fetchCount]_vars

\* C9: the fetch has failed with a non-OK status; the scroll listener is the
\* one handler that can still run
C9_Witness ==
    /\ fetchStatus = "rejected"
    /\ error = "Failed to fetch data: Not Found"
    /\ ~ViewShown
    /\ ENABLED HandleScroll(TRUE)

\* C10: loading holds until the fetch resolves or fails, is false once it has,
\* never turns true again, and one request is issued, by the mount
C10_LoadingUntilFetchEnds ==
    /\ [](fetchStatus \in {"idle", "pending"} => loading)
    /\ [](fetchStatus \in {"resolved", "rejected"} => ~loading)
    /\ [][~loading => ~loading']_vars
    /\ [](fetchCount = (IF mounted THEN 1 ELSE 0))

\* C10: the fetch has resolved, the view is shown and the user has acted on it
C10_Witness ==
    /\ fetchStatus = "resolved"
    /\ ~loading
    /\ fetchCount = 1
    /\ searchQuery # <<>>

\* a record of the fetched list has a null field, or lacks a field
Malformed(item) ==
    \E i \in 1..Len(Fields) : typeof(item[Fields[i]]) \in {"object", "undefined"}

\* C11: the derivation never throws, and with a malformed record fetched the
\* derived list holds exactly the records that pass search, date range and
\* filters, a null or absent field matching nothing
C11_MalformedNeverRaises ==
    /\ ~raised
    /\ (fetchStatus = "resolved" /\ Untruncated
            /\ \E i \in 1..Len(data) : Malformed(data[i]))
        => \A i \in 1..Len(data) :
               (\E n \in 1..Len(filteredData) : filteredData[n] = data[i])
                   <=> PassesAll(data[i])

\* C12: the reveal count never decreases; it changes only in a click on
\* "Load more..." or a near-bottom scroll, and then by one step; fetch,
\* search, date, sort and filter events leave it unchanged
C12_RevealCountMonotone ==
    [][/\ itemsPerPage' >= itemsPerPage
       /\ itemsPerPage' # itemsPerPage =>
              /\ HandleLoadMore \/ HandleScroll(TRUE)
              /\ itemsPerPage' = itemsPerPage + PageStep
       /\ (Mount \/ Resolve \/ Reject \/ Search \/ PickStart \/ PickEnd \/ Sort
              \/ AddFilter \/ DropFilter) => itemsPerPage' = itemsPerPage]_vars

\* C12: the reveal count has been advanced, and a search typed afterwards
\* has left it where it was
C12_Witness ==
    /\ itemsPerPage > InitialItems
    /\ searchQuery # <<>>
    /\ ~raised

\* C13: a near-bottom scroll with the reveal count at or above the length of
\* the filtered list changes neither the count nor the list, so any number of
\* them leaves the count where it is
C13_ScrollIdempotentAtEnd ==
    [][(HandleScroll(TRUE) /\ itemsPerPage >= Len(filteredData))
          => (itemsPerPage' = itemsPerPage /\ filteredData' = filteredData)]_vars

\* C13: the reveal count has passed the end of a list longer than the initial
\* count, and the scroll listener is still there
C13_Witness ==
    /\ Len(filteredData) > InitialItems
    /\ itemsPerPage >= Len(filteredData)
    /\ ENABLED HandleScroll(TRUE)

Buckets == {"installing", "done", "failed", "unknown"}

\* C14: the four predicates of the legend put every fetched record in exactly
\* one bucket, the one the if / else chain of the fetch puts it in; so the two
\* ways of counting agree on the fetched and on the filtered list
C14_ClassifiersAgree ==
    /\ \A i \in 1..Len(data) :
           LET c == filteredCounts(<<data[i]>>)
           IN  /\ c[StatusBucket(data[i])] = 1
               /\ \A b \in Buckets \ {StatusBucket(data[i])} : c[b] = 0
    /\ \A b \in Buckets :
           /\ CountStatuses(data)[b] = filteredCounts(data)[b]
           /\ CountStatuses(filteredData)[b] = filteredCounts(filteredData)[b]
    /\ fetchStatus = "resolved" => \A b \in Buckets : statusCounts[b] = filteredCounts(data)[b]

\* C14: the fetched list has a record in each of the four buckets, and a
\* record of the unknown bucket is in the filtered list
C14_Witness ==
    /\ fetchStatus = "resolved"
    /\ \A b \in Buckets : \E i \in 1..Len(data) : StatusBucket(data[i]) = b
    /\ \E i \in 1..Len(filteredData) : StatusBucket(filteredData[i]) = "unknown"

\* C15: a click on the header of the sort column flips the direction and
\* keeps the column; a click on another header makes it the sort column,
\* ascending; the direction is asc or desc and the sort column one column or none
C15_ToggleSortFlipsOrSwitches ==
    /\ [][\A column \in Columns :
              ToggleSort(column) =>
                  IF sortColumn = column
                  THEN /\ sortColumn' = sortColumn
                       /\ sortDirection' # sortDirection
                  ELSE /\ sortColumn' = column
                       /\ sortDirection' = "asc"]_vars
    /\ [](sortDirection \in {"asc", "desc"})
    /\ [](sortColumn \in Columns \cup {Null})

\* C15: in the second version, which starts on created_at descending, another
\* column has been chosen and its direction flipped
C15_Witness ==
    /\ variant = 2
    /\ sortColumn = "status"
    /\ sortDirection = "desc"

\* C16: the fetched list changes in the step that resolves the fetch and in
\* no other, and is left as fetched by every later step
C16_DataNeverMutated ==
    /\ [][data' # data => \E result \in FetchResults : FetchResolve(result)]_vars
    /\ [][fetchStatus = "resolved" => data' = data]_vars

\* C16: the derived list is the fetched list in another order
C16_Witness ==
    /\ fetchStatus = "resolved"
    /\ sortColumn # Null
    /\ Len(filteredData) = Len(data)
    /\ Len(data) >= 3
    /\ filteredData # data

\* r is one of the records of s
In(s, r) == \E n \in 1..Len(s) : s[n] = r

\* some field of the record, written as a string and lower-cased, contains
\* the lower-cased query
HasFieldContaining(item, q) ==
    \E i \in 1..Len(Fields) :
        /\ typeof(item[Fields[i]]) \in {"number", "string"}
        /\ includes(toLowerCase(toString(item[Fields[i]])), toLowerCase(q))

NoDatesNoFilters == startDate = NullDate /\ endDate = NullDate /\ filters = <<>>

\* C17: with no date bound and no filter, and unless the derivation threw, a
\* fetched record is in the derived list exactly when one of its fields
\* contains the query, case ignored; the empty query keeps every record, and
\* "Fail" keeps the second record of the example list and no other
C17_SearchIsSubstringOfSomeField ==
    (fetchStatus = "resolved" /\ Untruncated /\ ~raised /\ NoDatesNoFilters) =>
        /\ \A i \in 1..Len(data) :
               In(filteredData, data[i]) <=> HasFieldContaining(data[i], searchQuery)
        /\ searchQuery = <<>> => Len(filteredData) = Len(data)
        /\ (data = ExampleList /\ searchQuery = sFail)
               => Range(filteredData) = {ExampleList[2]}

\* C17: the example list is searched for "Fail" and one record is left
C17_Witness ==
    /\ data = ExampleList
    /\ searchQuery = sFail
    /\ NoDatesNoFilters
    /\ ~raised
    /\ Len(filteredData) = 1

\* the time value of the record's created_at is within the chosen bounds,
\* each bound included
WithinDates(item) ==
    LET t == NewDate(item.created_at.v)
    IN  /\ startDate = NullDate \/ (t # NaN /\ t[1] >= startDate[1])
        /\ endDate = NullDate \/ (t # NaN /\ t[1] <= endDate[1])

\* C18: with no query and no filter a fetched record is in the derived list
\* exactly when its created_at is at or after the start date, if there is one,
\* and at or before the end date, if there is one
C18_DateRangeInclusive ==
    (fetchStatus = "resolved" /\ Untruncated /\ ~raised
        /\ searchQuery = <<>> /\ filters = <<>>) =>
        /\ \A i \in 1..Len(data) : In(filteredData, data[i]) <=> WithinDates(data[i])
        /\ (startDate = NullDate /\ endDate = NullDate) => Len(filteredData) = Len(data)

\* C18: both bounds are set to the same instant, and the records created at
\* that instant are kept while others are dropped
C18_Witness ==
    /\ fetchStatus = "resolved"
    /\ startDate # NullDate /\ endDate = startDate
    /\ searchQuery = <<>> /\ filters = <<>>
    /\ 0 < Len(filteredData) /\ Len(filteredData) < Len(data)
    /\ \A n \in 1..Len(filteredData) : NewDate(filteredData[n].created_at.v) = startDate

\* C19: while the table is shown its rows are the first records of the
\* filtered and sorted list, as many as the reveal count or all of them if
\* there are fewer, in that order; "No results found" is shown exactly when
\* that list is empty
C19_RowsArePrefixOfDerived ==
    (ViewShown /\ ~raised) =>
        LET full == Derive(data, filters, searchQuery, startDate, endDate,
                           sortColumn, sortDirection)
        IN  /\ RenderedRows = SubSeq(full, 1, Min(itemsPerPage, Len(full)))
            /\ NoResultsShown <=> Len(full) = 0

\* C19: more records pass than the reveal count covers, and the list is sorted
C19_Witness ==
    /\ ViewShown
    /\ variant = 3
    /\ sortColumn = "disk_size"
    /\ Len(filteredData) > itemsPerPage
    /\ Len(RenderedRows) = itemsPerPage

NumericOperators == {"greater", "greater or equal", "less", "less or equal"}

StringOperators == {"equals", "not equals", "contains", "does not contain"}

\* the pair can match the value: a numeric operator with a value that starts
\* with a number on a number, a string operator on a string
InScope(itemValue, operator, value) ==
    \/ /\ typeof(itemValue) = "number"
       /\ operator \in NumericOperators
       /\ DigitPrefixLen(value) > 0
    \/ /\ typeof(itemValue) = "string"
       /\ operator \in StringOperators

\* C20: a pair matches a value only when it is in scope for the value's type;
\* so every record of the derived list has, in each column's group, a pair
\* in scope for its value, and a group without one empties the list
C20_OperatorsScopedByType ==
    /\ \A i \in 1..Len(data) : \A k \in 1..Len(filters) : \A j \in 1..Len(filters[k].list) :
           LET e == filters[k].list[j]
           IN  FilterMatches(data[i][filters[k].key], e.operator, e.value)
                   => InScope(data[i][filters[k].key], e.operator, e.value)
    /\ (fetchStatus = "resolved" /\ ~raised) =>
           \A n \in 1..Len(filteredData) : \A k \in 1..Len(filters) :
               \E j \in 1..Len(filters[k].list) :
                   InScope(filteredData[n][filters[k].key],
                           filters[k].list[j].operator, filters[k].list[j].value)

\* C20: the only filters are a numeric operator on the string column and a
\* value that is no number on the numeric column, and no record is left
C20_Witness ==
    /\ fetchStatus = "resolved"
    /\ Len(data) > 0
    /\ Len(filters) = 2
    /\ \A k \in 1..Len(filters) : \A i \in 1..Len(data) :
           ~InScope(data[i][filters[k].key], filters[k].list[1].operator,
                    filters[k].list[1].value)
    /\ filteredData = <<>>

\* C21: in the first version, once the derivation effect has run, the stored
\* list is no longer than the reveal count, so "Load more..." is not offered,
\* the scroll updater returns the count it is given, and the count stays at
\* its initial value however many records pass
C21_FirstVersionNeverReveals ==
    (variant = 1 /\ ~raised) =>
        /\ Len(filteredData) <= itemsPerPage
        /\ ~(itemsPerPage < Len(filteredData))
        /\ ScrolledItems(itemsPerPage) = itemsPerPage
        /\ itemsPerPage = InitialItems

\* C21: in the first version more records pass than the reveal count covers,
\* the stored list is cut to the count, and the scroll listener is there
C21_Witness ==
    /\ variant = 1
    /\ fetchStatus = "resolved"
    /\ Len(Passing) > itemsPerPage
    /\ Len(filteredData) = itemsPerPage
    /\ ENABLED HandleScroll(TRUE)

\* C22: in the second and third version, after every step whose effect ran to
\* its end, the stored list is the derivation of the current fetched list,
\* filters, query, dates and sort; and a step that changes the reveal count
\* leaves the stored list as it is
C22_NoStaleFilteredList ==
    /\ []((variant # 1 /\ mounted /\ ~raised) =>
             filteredData = Derive(data, filters, searchQuery, startDate, endDate,
                                   sortColumn, sortDirection))
    /\ [][(variant # 1 /\ itemsPerPage' # itemsPerPage)
             => filteredData' = filteredData]_vars

\* C22: in a later version the reveal count has been advanced while a
\* filter that drops records is active
C22_Witness ==
    /\ variant # 1
    /\ itemsPerPage > InitialItems
    /\ filters # <<>>
    /\ 0 < Len(filteredData) /\ Len(filteredData) < Len(data)

\* no list of the filter map holds the same operator and value twice, and no
\* key occurs twice
NoDuplicateEntries(f) ==
    /\ \A k, l \in 1..Len(f) : f[k].key = f[l].key => k = l
    /\ \A k \in 1..Len(f) : \A i, j \in 1..Len(f[k].list) :
           f[k].list[i] = f[k].list[j] => i = j

\* C23: no column's list holds the same operator and value twice; and from
\* the filter map of any state, applyFilters on a triple that is there yields
\* the same map, on a new triple a map with the triple at the end of its
\* column's list, the other columns unchanged
C23_ApplyFiltersIdempotent ==
    /\ NoDuplicateEntries(filters)
    /\ \A c \in FilterChoices :
           LET entry == [operator |-> c[2], value |-> c[3]]
               after == AppliedFilters(filters, c[1], c[2], c[3])
           IN  IF AlreadyExists(filters, c[1], c[2], c[3])
               THEN after = filters
               ELSE /\ HasKey(after, c[1])
                    /\ Lookup(after, c[1]) =
                           (IF HasKey(filters, c[1])
                            THEN Lookup(filters, c[1]) ELSE <<>>) \o <<entry>>
                    /\ \A k \in 1..Len(filters) :
                           filters[k].key # c[1] => after[k] = filters[k]
                    /\ Len(after) = Len(filters) + (IF HasKey(filters, c[1]) THEN 0 ELSE 1)
                    /\ NoDuplicateEntries(after)

\* C23: a column holds two entries, and applying the first of them again
\* leaves the filter map as it is
C23_Witness ==
    /\ Len(filters) = 1
    /\ Len(filters[1].list) = 2
    /\ ENABLED ( /\ ApplyFilters(filters[1].key, filters[1].list[1].operator,
                                 filters[1].list[1].value)
                 /\ filters' = filters )

\* the filter map after the applyFilters calls of a sequence, made in order
\* on the empty map
RECURSIVE AfterCalls(_, _)
AfterCalls(calls, n) ==
    IF n = 0 THEN <<>>
    ELSE AppliedFilters(AfterCalls(calls, n - 1), calls[n][1], calls[n][2], calls[n][3])

\* the filter maps that sequences of applyFilters calls can build
FilterMapsBuilt ==
    UNION { {AfterCalls(calls, n) : calls \in [1..n -> FilterChoices]} :
                n \in 0..MaxFilterEntries }

\* the (operator, value) pairs of a column, none if the map has no such key
TriplesOf(f, column) == IF HasKey(f, column) THEN Range(Lookup(f, column)) ELSE {}

\* two filter maps hold the same triples per column
SameTriples(f, g) ==
    /\ {f[k].key : k \in 1..Len(f)} = {g[k].key : k \in 1..Len(g)}
    /\ \A k \in 1..Len(f) : TriplesOf(f, f[k].key) = TriplesOf(g, f[k].key)

\* the filter maps that hold the triples of the current one in another order
Reordered == {g \in FilterMapsBuilt : g # filters /\ SameTriples(g, filters)}

\* C24: the stored list is the one the derivation yields from any filter map
\* that holds the same triples per column, whatever the order in which the
\* triples and the columns were added
C24_FilterOrderIrrelevant ==
    (mounted /\ ~raised) =>
        \A g \in Reordered :
            Rederive(data, g, searchQuery, startDate, endDate, sortColumn,
                     sortDirection, itemsPerPage) = filteredData

\* C24: two columns are filtered, their groups keep different records, and
\* the same triples can be added in another order
C24_Witness ==
    /\ fetchStatus = "resolved"
    /\ ~raised
    /\ Len(filters) = 2
    /\ Reordered # {}
    /\ 0 < Len(filteredData)
    /\ \E i \in 1..Len(data) :
           /\ SomeFilterMatches(data[i], filters[1].key, filters[1].list)
           /\ ~SomeFilterMatches(data[i], filters[2].key, filters[2].list)
    /\ \E i \in 1..Len(data) :
           /\ SomeFilterMatches(data[i], filters[2].key, filters[2].list)
           /\ ~SomeFilterMatches(data[i], filters[1].key, filters[1].list)

=============================================================================
